---- MODULE Spec2Model ----
(***************************************************************************)
(* Model of the SimplexMotor Modbus driver (src/simplexMotor.py).          *)
(*                                                                         *)
(* The driver object holds one field that matters, self.client (None or a  *)
(* ModbusSerialClient).  The serial client holds a session that is open or *)
(* not, and the device holds the holding registers.  Every public method   *)
(* of the driver is one action; the transport's answer to each transaction *)
(* is an input of the action ("ok": words returned, "err": a response      *)
(* whose isError() is true, "exc": the transport raises).                  *)
(*                                                                         *)
(* Returned numbers are kept exact: an int is <<n>>, a float quotient is   *)
(* <<numerator, denominator>>, no value is <<>>.                           *)
(***************************************************************************)
EXTENDS Integers, Sequences, FiniteSets, TLC

VARIABLES
    client,       \* self.client: "None" or "Client"
    portOpen,     \* whether the serial session of self.client is open
    regs,         \* the device's holding registers, by name, as word sequences
    last,         \* the last completed driver call and what it did
    prev,         \* summary of the call before it
    pc,           \* position of a caller inside set_position_resolution
    options_old,  \* local of set_position_resolution
    options_new,  \* local of set_position_resolution
    rmw_mode,     \* argument of the set_position_resolution in progress
    other         \* <<v>>: value another bus writer stored since the last read step

vars == <<client, portOpen, regs, last, prev, pc, options_old, options_new,
          rmw_mode, other>>

(***************************************************************************)
(* Bounds and sample inputs                                                *)
(***************************************************************************)
MaxLowIdx == 1

LowSample(k) == (2748 + k * 1365) % 4096

HighSamples == {0, 1, 2, 3, 8, 15}

OptionSamples == {hi * 4096 + LowSample(k) : hi \in HighSamples, k \in 0..MaxLowIdx}

\* position -2 counts, speed -100 raw
TelemetrySamples == { [Position |-> <<65535, 65534>>, Speed |-> <<65436>>] }

ModeArgs == {-1, 0, 1, 2, 5}

Outcomes == {"ok", "err", "exc"}

(***************************************************************************)
(* Bit operations on Python ints (non-negative operands)                   *)
(***************************************************************************)
RECURSIVE BitAnd(_, _)
BitAnd(a, b) ==
    IF a = 0 \/ b = 0 THEN 0
    ELSE (a % 2) * (b % 2) + 2 * BitAnd(a \div 2, b \div 2)

RECURSIVE BitOr(_, _)
BitOr(a, b) ==
    IF a = 0 THEN b
    ELSE IF b = 0 THEN a
    ELSE (IF a % 2 = 1 \/ b % 2 = 1 THEN 1 ELSE 0) + 2 * BitOr(a \div 2, b \div 2)

Shl(a, n) == a * 2^n

Shr(a, n) == a \div 2^n

(***************************************************************************)
(* The transport (ModbusSerialClient) as the driver sees it                *)
(***************************************************************************)
World(open, r) == [open |-> open, regs |-> r]

Call(kind, reg, out) == [kind |-> kind, reg |-> reg, out |-> out]

\* client.read_holding_registers(address, count, slave).  A transaction on a
\* session that is not open makes the client open it again when it succeeds.
read_holding_registers(w, reg, count, o) ==
    [ out   |-> o,
      words |-> IF o = "ok" THEN SubSeq(w.regs[reg], 1, count)
                ELSE [i \in 1..count |-> 0],
      w     |-> IF o = "ok" THEN World(TRUE, w.regs) ELSE w ]

\* client.write_register(address, value, slave).  When the transaction fails
\* the device may or may not have stored the value (applied).
write_register(w, reg, value, o, applied) ==
    [ out |-> o,
      w   |-> IF o = "ok" THEN World(TRUE, [w.regs EXCEPT ![reg] = <<value>>])
              ELSE IF applied THEN World(w.open, [w.regs EXCEPT ![reg] = <<value>>])
              ELSE w ]

isErrorIgnored(resp) == FALSE

isError(resp) == resp.out = "err"

(***************************************************************************)
(* Internal helpers of the driver                                          *)
(***************************************************************************)
Result(res, val, calls, w) == [res |-> res, val |-> val, calls |-> calls, w |-> w]

\* TRUE when the guard passes, FALSE when it raises "Client not connected."
check_connection(c) == c # "None"

\* always raises RuntimeError("Failed to read <context>: ...")
handle_modbus_error(context) == "ModbusOperationError"

\* how a transaction's answer ends the call: "none" when it does not
Failure(resp, context) ==
    IF resp.out = "exc" THEN "TransportException"
    ELSE IF isError(resp) THEN handle_modbus_error(context)
    ELSE "none"

(***************************************************************************)
(* Lifecycle methods                                                       *)
(***************************************************************************)
\* self.client is assigned before client.connect() is tried
connect(c, w, ok) ==
    [ client |-> "Client",
      res    |-> IF ok THEN "ok" ELSE "ConnectionError",
      val    |-> <<>>,
      calls  |-> <<Call("open", "port", IF ok THEN "ok" ELSE "err")>>,
      w      |-> World(ok, w.regs) ]

close(c, w) ==
    IF c # "None"
    THEN Result("ok", <<>>, <<Call("close", "port", "ok")>>, World(FALSE, w.regs))
    ELSE Result("ok", <<>>, <<>>, w)

(***************************************************************************)
(* Getters                                                                 *)
(***************************************************************************)
get_torque_max(c, w, o1) ==
    IF ~check_connection(c) THEN Result("NotConnected", <<>>, <<>>, w)
    ELSE LET resp  == read_holding_registers(w, "TorqueMax", 1, o1)
             calls == <<Call("read", "TorqueMax", o1)>>
             f     == Failure(resp, "TorqueMax")
         IN  IF f # "none" THEN Result(f, <<>>, calls, resp.w)
             ELSE Result("ok", <<resp.words[1], 1000>>, calls, resp.w)

decode_resolution_mask3(raw) ==
    LET resolution_bits == BitAnd(Shr(raw, 12), 3)
    IN  IF resolution_bits = 0 THEN 4096
        ELSE IF resolution_bits = 1 THEN 8192
        ELSE IF resolution_bits = 2 THEN 16384
        ELSE 4096

decode_resolution(raw) ==
    LET resolution_bits == BitAnd(Shr(raw, 12), 15)
    IN  IF resolution_bits = 0 THEN 4096
        ELSE IF resolution_bits = 1 THEN 8192
        ELSE IF resolution_bits = 2 THEN 16384
        ELSE 4096

get_counters_per_rev(c, w, o1) ==
    IF ~check_connection(c) THEN Result("NotConnected", <<>>, <<>>, w)
    ELSE LET resp  == read_holding_registers(w, "MotorOptions", 1, o1)
             calls == <<Call("read", "MotorOptions", o1)>>
             f     == Failure(resp, "MotorOptions")
         IN  IF f # "none" THEN Result(f, <<>>, calls, resp.w)
             ELSE Result("ok", <<decode_resolution(resp.words[1])>>, calls, resp.w)

\* (msw << 16) | lsw, minus 2^32 when bit 31 is set.  Bit 31 of the composed
\* word is bit 15 of msw, and ((msw << 16) | lsw) - 2^32 is
\* (msw - 2^16) * 2^16 + lsw, which keeps every intermediate within 32 bits.
decode_signed32(msw, lsw) ==
    IF BitAnd(msw, 32768) # 0 THEN (msw - 65536) * 65536 + lsw
    ELSE BitOr(Shl(msw, 16), lsw)

get_position_counts(c, w, o1) ==
    IF ~check_connection(c) THEN Result("NotConnected", <<>>, <<>>, w)
    ELSE LET resp  == read_holding_registers(w, "Position", 2, o1)
             calls == <<Call("read", "Position", o1)>>
             f     == Failure(resp, "Position")
         IN  IF f # "none" THEN Result(f, <<>>, calls, resp.w)
             ELSE Result("ok", <<decode_signed32(resp.words[1], resp.words[2])>>,
                         calls, resp.w)

get_position_cached(c, w, o1, o2) ==
    LET r1 == get_position_counts(c, w, o1)
    IN  IF r1.res # "ok" THEN r1
        ELSE Result("ok", <<r1.val[1] * 360, 4096>>, r1.calls, r1.w)

get_position(c, w, o1, o2) ==
    LET r1 == get_position_counts(c, w, o1)
    IN  IF r1.res # "ok" THEN r1
        ELSE LET r2 == get_counters_per_rev(c, r1.w, o2)
             IN  IF r2.res # "ok"
                 THEN Result(r2.res, <<>>, r1.calls \o r2.calls, r2.w)
                 ELSE Result("ok", <<r1.val[1] * 360, r2.val[1]>>,
                             r1.calls \o r2.calls, r2.w)

decode_signed16(raw) ==
    IF BitAnd(raw, 32768) # 0 THEN raw - 65536 ELSE raw

get_speed(c, w, o1, o2) ==
    IF ~check_connection(c) THEN Result("NotConnected", <<>>, <<>>, w)
    ELSE LET resp  == read_holding_registers(w, "Speed", 1, o1)
             calls == <<Call("read", "Speed", o1)>>
             f     == Failure(resp, "Speed")
         IN  IF f # "none" THEN Result(f, <<>>, calls, resp.w)
             ELSE LET raw_signed == decode_signed16(resp.words[1])
                      r2 == get_counters_per_rev(c, resp.w, o2)
                  IN  IF r2.res # "ok"
                      THEN Result(r2.res, <<>>, calls \o r2.calls, r2.w)
                      ELSE Result("ok", <<raw_signed * 16 * 360, r2.val[1]>>,
                                  calls \o r2.calls, r2.w)

get_mode(c, w, o1) ==
    IF ~check_connection(c) THEN Result("NotConnected", <<>>, <<>>, w)
    ELSE LET resp  == read_holding_registers(w, "Mode", 1, o1)
             calls == <<Call("read", "Mode", o1)>>
             f     == Failure(resp, "Mode")
         IN  IF f # "none" THEN Result(f, <<>>, calls, resp.w)
             ELSE Result("ok", <<resp.words[1]>>, calls, resp.w)

(***************************************************************************)
(* Setter: read-modify-write of Motor Options                              *)
(***************************************************************************)
valid_mode_nonneg(mode) == mode >= 0

valid_mode(mode) == mode \in {0, 1, 2}

pack_resolution_clobber(old, mode) == Shl(mode, 12)

pack_resolution(old, mode) == BitOr(BitAnd(old, 4095), Shl(mode, 12))

never_skip(old, new) == FALSE

skip_write(old, new) == old = new

\* lines 245-268: guard, validation, read, modify, skip test.  done = the call
\* has ended; otherwise the write of new is still to come.
set_resolution_read(c, w, mode, o1) ==
    IF ~check_connection(c)
    THEN [done |-> TRUE, old |-> 0, new |-> 0, r |-> Result("NotConnected", <<>>, <<>>, w)]
    ELSE IF ~valid_mode(mode)
    THEN [done |-> TRUE, old |-> 0, new |-> 0, r |-> Result("InvalidArgument", <<>>, <<>>, w)]
    ELSE LET resp  == read_holding_registers(w, "MotorOptions", 1, o1)
             calls == <<Call("read", "MotorOptions", o1)>>
             f     == Failure(resp, "MotorOptions")
         IN  IF f # "none"
             THEN [done |-> TRUE, old |-> 0, new |-> 0, r |-> Result(f, <<>>, calls, resp.w)]
             ELSE LET old == resp.words[1]
                      new == pack_resolution(old, mode)
                  IN  [done |-> skip_write(old, new), old |-> old, new |-> new,
                       r |-> Result("ok", <<>>, calls, resp.w)]

set_resolution_write_old(w, old, new, calls, o2, applied) ==
    LET wr == write_register(w, "MotorOptions", old, o2, applied)
        cs == calls \o <<Call("write", "MotorOptions", o2)>>
    IN  IF wr.out = "exc" THEN Result("TransportException", <<>>, cs, wr.w)
        ELSE IF isError(wr) THEN Result("WriteError", <<>>, cs, wr.w)
        ELSE Result("ok", <<>>, cs, wr.w)

\* lines 270-281: the write of options_new
set_resolution_write(w, old, new, calls, o2, applied) ==
    LET wr == write_register(w, "MotorOptions", new, o2, applied)
        cs == calls \o <<Call("write", "MotorOptions", o2)>>
    IN  IF wr.out = "exc" THEN Result("TransportException", <<>>, cs, wr.w)
        ELSE IF isError(wr) THEN Result("WriteError", <<>>, cs, wr.w)
        ELSE Result("ok", <<>>, cs, wr.w)

\* the whole method, run by a single caller
set_position_resolution(c, w, mode, o1, o2, applied) ==
    LET p == set_resolution_read(c, w, mode, o1)
    IN  IF p.done THEN p.r
        ELSE set_resolution_write(p.r.w, p.old, p.new, p.r.calls, o2, applied)

(***************************************************************************)
(* State machine                                                           *)
(***************************************************************************)
NoCall == [op |-> "none", arg |-> <<>>, res |-> "ok", val |-> <<>>, calls |-> <<>>,
           hadClient |-> FALSE, wasOpen |-> FALSE]

Wrote(calls) == \E i \in 1..Len(calls) : calls[i].kind = "write"

Summary(l) == [op |-> l.op, arg |-> l.arg, res |-> l.res, wrote |-> Wrote(l.calls)]

Init ==
    /\ client = "None"
    /\ portOpen = FALSE
    /\ regs \in { [TorqueMax |-> <<1500>>, MotorOptions |-> <<o>>,
                   Position |-> t.Position, Speed |-> t.Speed, Mode |-> <<1>>] :
                  o \in OptionSamples, t \in TelemetrySamples }
    /\ last = NoCall
    /\ prev = Summary(NoCall)
    /\ pc = "idle"
    /\ options_old = 0
    /\ options_new = 0
    /\ rmw_mode = 0
    /\ other = <<>>

W == World(portOpen, regs)

\* a call returns (or raises): the device and the session take the call's
\* effects and the call is recorded
Finish(op, arg, r) ==
    /\ portOpen' = r.w.open
    /\ regs' = r.w.regs
    /\ last' = [op |-> op, arg |-> arg, res |-> r.res, val |-> r.val,
                calls |-> r.calls, hadClient |-> client # "None",
                wasOpen |-> portOpen]
    /\ prev' = Summary(last)

Locals == <<pc, options_old, options_new, rmw_mode, other>>

Connect ==
    /\ pc = "idle"
    /\ \E ok \in BOOLEAN :
          LET r == connect(client, W, ok)
          IN  /\ client' = r.client
              /\ Finish("connect", <<>>, r)
    /\ UNCHANGED Locals

Close ==
    /\ pc = "idle"
    /\ Finish("close", <<>>, close(client, W))
    /\ UNCHANGED <<client, Locals>>

GetTorqueMax ==
    /\ pc = "idle"
    /\ \E o1 \in Outcomes : Finish("get_torque_max", <<>>, get_torque_max(client, W, o1))
    /\ UNCHANGED <<client, Locals>>

GetCountersPerRev ==
    /\ pc = "idle"
    /\ \E o1 \in Outcomes :
          Finish("get_counters_per_rev", <<>>, get_counters_per_rev(client, W, o1))
    /\ UNCHANGED <<client, Locals>>

GetPositionCounts ==
    /\ pc = "idle"
    /\ \E o1 \in Outcomes :
          Finish("get_position_counts", <<>>, get_position_counts(client, W, o1))
    /\ UNCHANGED <<client, Locals>>

GetPosition ==
    /\ pc = "idle"
    /\ \E o1 \in Outcomes, o2 \in Outcomes :
          Finish("get_position", <<>>, get_position(client, W, o1, o2))
    /\ UNCHANGED <<client, Locals>>

GetSpeed ==
    /\ pc = "idle"
    /\ \E o1 \in Outcomes, o2 \in Outcomes :
          Finish("get_speed", <<>>, get_speed(client, W, o1, o2))
    /\ UNCHANGED <<client, Locals>>

GetMode ==
    /\ pc = "idle"
    /\ \E o1 \in Outcomes : Finish("get_mode", <<>>, get_mode(client, W, o1))
    /\ UNCHANGED <<client, Locals>>

SetPositionResolution ==
    /\ pc = "idle"
    /\ \E mode \in ModeArgs, o1 \in Outcomes, o2 \in Outcomes, applied \in BOOLEAN :
          Finish("set_position_resolution", <<mode>>,
                 set_position_resolution(client, W, mode, o1, o2, applied))
    /\ UNCHANGED <<client, Locals>>

Next ==
    \/ Connect
    \/ Close
    \/ GetTorqueMax
    \/ GetCountersPerRev
    \/ GetPositionCounts
    \/ GetPosition
    \/ GetSpeed
    \/ GetMode
    \/ SetPositionResolution

Spec == Init /\ [][Next]_vars

(***************************************************************************)
(* Callers that are not serialized: set_position_resolution as two steps,  *)
(* and another writer on the bus                                           *)
(***************************************************************************)
SetResRead ==
    /\ pc = "idle"
    /\ \E mode \in ModeArgs, o1 \in Outcomes :
          LET p == set_resolution_read(client, W, mode, o1)
          IN  /\ rmw_mode' = mode
              /\ options_old' = p.old
              /\ options_new' = p.new
              /\ Finish("set_position_resolution", <<mode>>,
                        IF p.done THEN p.r ELSE [p.r EXCEPT !.res = "running"])
              /\ pc' = IF p.done THEN "idle" ELSE "write"
    /\ other' = <<>>
    /\ UNCHANGED client

SetResWrite ==
    /\ pc = "write"
    /\ \E o2 \in Outcomes, applied \in BOOLEAN :
          LET r == set_resolution_write(W, options_old, options_new, last.calls,
                                        o2, applied)
          IN  /\ portOpen' = r.w.open
              /\ regs' = r.w.regs
              /\ last' = [last EXCEPT !.res = r.res, !.calls = r.calls]
    /\ pc' = "idle"
    /\ UNCHANGED <<client, prev, options_old, options_new, rmw_mode, other>>

\* another master (or an unserialized caller) stores new bits 0-11 in Motor
\* Options, keeping the resolution field it finds there
OtherWriter ==
    /\ \E k \in 0..MaxLowIdx :
          LET v == (regs.MotorOptions[1] \div 4096) * 4096 + LowSample(k)
          IN  /\ v # regs.MotorOptions[1]
              /\ regs' = [regs EXCEPT !.MotorOptions = <<v>>]
              /\ other' = <<v>>
    /\ UNCHANGED <<client, portOpen, last, prev, pc, options_old, options_new,
                   rmw_mode>>

NextRace ==
    \/ Connect
    \/ SetResRead
    \/ SetResWrite
    \/ OtherWriter

SpecRace == Init /\ [][NextRace]_vars

(***************************************************************************)
(* The resolution decoding over every 16-bit Motor Options word            *)
(***************************************************************************)
InitCodec ==
    /\ client = "Client"
    /\ portOpen = TRUE
    /\ regs \in { [TorqueMax |-> <<1500>>, MotorOptions |-> <<o>>,
                   Position |-> <<0, 1000>>, Speed |-> <<100>>, Mode |-> <<1>>] :
                  o \in 0..(2^16 - 1) }
    /\ last = [op |-> "connect", arg |-> <<>>, res |-> "ok", val |-> <<>>,
               calls |-> <<Call("open", "port", "ok")>>,
               hadClient |-> FALSE, wasOpen |-> FALSE]
    /\ prev = Summary(NoCall)
    /\ pc = "idle"
    /\ options_old = 0
    /\ options_new = 0
    /\ rmw_mode = 0
    /\ other = <<>>

NextCodec == GetCountersPerRev

SpecCodec == InitCodec /\ [][NextCodec]_vars

(***************************************************************************)
(* Properties                                                              *)
(***************************************************************************)
RegisterOps == {"get_torque_max", "get_counters_per_rev", "get_position_counts",
                "get_position", "get_speed", "get_mode", "set_position_resolution"}

Accessors == RegisterOps \ {"set_position_resolution"}

\* the session existed and was open when the last call began
WasConnected == last.hadClient /\ last.wasOpen

Reads(calls) == {i \in 1..Len(calls) : calls[i].kind = "read"}

Writes(calls) == {i \in 1..Len(calls) : calls[i].kind = "write"}

OptionsWord == regs.MotorOptions[1]

\* C1: in every state in which the driver is Disconnected (no open session),
\* a register operation fails with NotConnected and makes no transport call.
C1_DisconnectedOpsFail ==
    (last.op \in RegisterOps /\ ~WasConnected)
        => (last.res = "NotConnected" /\ last.calls = <<>>)

\* C2: connect() reaches Connected only when the open succeeds; when the open
\* fails it fails with ConnectionError, the driver stays Disconnected, and a
\* register operation called next fails with NotConnected without any
\* transport call.
C2_FailedConnectStaysDisconnected ==
    /\ (last.op = "connect" /\ last.res = "ok") => (client = "Client" /\ portOpen)
    /\ (last.op = "connect" /\ last.res # "ok")
           => (last.res = "ConnectionError" /\ ~portOpen)
    /\ (prev.op = "connect" /\ prev.res = "ConnectionError" /\ last.op \in RegisterOps)
           => (last.res = "NotConnected" /\ last.calls = <<>>)

\* C3: close() returns a Connected driver to Disconnected, and close() on a
\* driver that is already Disconnected raises nothing and makes no call on
\* the transport.
C3_CloseIdempotentNoCall ==
    /\ last.op = "close" => (last.res = "ok" /\ ~portOpen)
    /\ (last.op = "close" /\ ~WasConnected) => last.calls = <<>>

\* C4 (as claimed): set_position_resolution with a mode outside {0,1,2} fails
\* with InvalidArgument as its first step and makes no transport call.
C4_InvalidModeFirst ==
    (last.op = "set_position_resolution" /\ last.arg[1] \notin {0, 1, 2})
        => (last.res = "InvalidArgument" /\ last.calls = <<>>)

\* C4 (amended): set_position_resolution with a mode outside {0,1,2} makes no
\* transport call and leaves the registers unchanged; it fails with
\* InvalidArgument when the driver holds a client object, and with
\* NotConnected (the guard comes first) when it holds none.
C4_InvalidModeAfterGuard ==
    [][ (last'.op = "set_position_resolution" /\ last'.arg[1] \notin {0, 1, 2})
            => /\ last'.calls = <<>>
               /\ regs' = regs
               /\ last'.res = IF client = "None" THEN "NotConnected"
                              ELSE "InvalidArgument" ]_vars

C4_Witness ==
    /\ last.op = "set_position_resolution"
    /\ last.arg = <<5>>
    /\ WasConnected
    /\ last.res = "InvalidArgument"
    /\ last.calls = <<>>

\* C5: set_position_resolution issues no write when the value it computes
\* equals the Motor Options value it has just read; a second call with the
\* same valid mode right after a successful first call makes one read and no
\* write.
C5_NoWriteWhenUnchanged ==
    [][ /\ ( /\ last'.op = "set_position_resolution"
             /\ last'.calls # <<>>
             /\ last'.calls[1].out = "ok"
             /\ OptionsWord = (OptionsWord % 4096) + last'.arg[1] * 4096 )
           => Writes(last'.calls) = {}
        /\ ( /\ prev'.op = "set_position_resolution"
             /\ prev'.res = "ok"
             /\ last'.op = "set_position_resolution"
             /\ last'.arg = prev'.arg )
           => ( /\ Len(last'.calls) = 1
                /\ last'.calls[1].kind = "read"
                /\ last'.calls[1].reg = "MotorOptions" ) ]_vars

C5_Witness ==
    /\ prev.op = "set_position_resolution"
    /\ prev.res = "ok"
    /\ prev.wrote
    /\ last.op = "set_position_resolution"
    /\ last.arg = prev.arg
    /\ last.res = "ok"
    /\ last.calls = <<Call("read", "MotorOptions", "ok")>>

\* C6: with a single caller, no call changes bits 0-11 of Motor Options, a
\* successful write stores (old & 0x0FFF) | (mode << 12), and after each
\* successful set_position_resolution bits 12-15 hold the requested mode.
C6_LowBitsPreserved ==
    [][ /\ regs'.MotorOptions[1] % 4096 = OptionsWord % 4096
        /\ regs'.MotorOptions[1] \in 0..65535
        /\ (last'.op = "set_position_resolution" /\ last'.res = "ok")
              => /\ regs'.MotorOptions[1] \div 4096 = last'.arg[1]
                 /\ regs'.MotorOptions[1] = (OptionsWord % 4096) + last'.arg[1] * 4096
      ]_vars

C6_Witness ==
    /\ last.op = "set_position_resolution"
    /\ last.res = "ok"
    /\ Writes(last.calls) # {}
    /\ OptionsWord % 4096 = 2748
    /\ OptionsWord \div 4096 = last.arg[1]

\* C7: for every 16-bit Motor Options word get_counters_per_rev returns 4096,
\* 8192 or 16384 when the field (word >> 12) & 0xF is 0, 1 or 2, and 4096
\* without raising for every field value in 3..15, whatever bits 0-11 hold.
C7_DecodeResolution ==
    (last.op = "get_counters_per_rev" /\ last.calls # <<>> /\ last.calls[1].out = "ok")
        => LET field == (OptionsWord \div 4096) % 16
           IN  /\ last.res = "ok"
               /\ last.val = << CASE field = 0 -> 4096
                                  [] field = 1 -> 8192
                                  [] field = 2 -> 16384
                                  [] OTHER     -> 4096 >>

C7_Witness ==
    /\ last.op = "get_counters_per_rev"
    /\ last.res = "ok"
    /\ (OptionsWord \div 4096) % 16 = 13
    /\ OptionsWord % 4096 # 0
    /\ last.val = <<4096>>

\* C8: a telemetry accessor issues no write and leaves every register
\* unchanged; a successful get_torque_max, get_counters_per_rev,
\* get_position_counts or get_mode issues exactly one read, a successful
\* get_position or get_speed exactly two, its own register first and Motor
\* Options second.
C8_AccessorsReadOnly ==
    [][ last'.op \in Accessors
          => /\ regs' = regs
             /\ Writes(last'.calls) = {}
             /\ last'.res = "ok"
                  => LET cs == last'.calls
                     IN  CASE last'.op = "get_torque_max" ->
                                cs = <<Call("read", "TorqueMax", "ok")>>
                           [] last'.op = "get_counters_per_rev" ->
                                cs = <<Call("read", "MotorOptions", "ok")>>
                           [] last'.op = "get_position_counts" ->
                                cs = <<Call("read", "Position", "ok")>>
                           [] last'.op = "get_mode" ->
                                cs = <<Call("read", "Mode", "ok")>>
                           [] last'.op = "get_position" ->
                                cs = <<Call("read", "Position", "ok"),
                                       Call("read", "MotorOptions", "ok")>>
                           [] last'.op = "get_speed" ->
                                cs = <<Call("read", "Speed", "ok"),
                                       Call("read", "MotorOptions", "ok")>> ]_vars

C8_Witness ==
    /\ last.op = "get_position"
    /\ last.res = "ok"
    /\ Len(last.calls) = 2
    /\ last.val = <<(0 - 2) * 360, 16384>>

\* C9: when the transport reports an error for a read or a write, the call
\* fails at once: the failed transaction is the call's last one.
C9_FailFastNoRetry ==
    \A i \in 1..Len(last.calls) :
        (last.calls[i].kind \in {"read", "write"} /\ last.calls[i].out # "ok")
            => (i = Len(last.calls) /\ last.res \notin {"ok", "running"})

C9_Witness ==
    /\ last.op = "get_speed"
    /\ last.calls = <<Call("read", "Speed", "err")>>
    /\ last.res = "ModbusOperationError"

\* C10: set_position_resolution is not atomic between its read and its
\* write: the write stores the bits 0-11 that were read, whatever Motor
\* Options holds by then, so a change made in between by another writer is
\* lost.
C10_WriteUsesStaleBits ==
    [][ (pc = "write" /\ pc' = "idle" /\ last'.res = "ok")
          => regs'.MotorOptions[1] = (options_old % 4096) + rmw_mode * 4096 ]_vars

C10_LostUpdate ==
    /\ pc = "idle"
    /\ last.op = "set_position_resolution"
    /\ last.res = "ok"
    /\ Writes(last.calls) # {}
    /\ other # <<>>
    /\ other[1] % 4096 # options_old % 4096
    /\ OptionsWord % 4096 = options_old % 4096

====
